---- MODULE Spec2Model ----
(***************************************************************************)
(* A model of NetworkHelper (src/network-helper.ts): the result consumer   *)
(* built by buildSubscribeConsumer, the client configuration produced by   *)
(* buildClient, and the asynchronous executeOperation entry point.         *)
(*                                                                         *)
(* Strings that the code only passes around are TLA+ strings.  Strings the *)
(* code takes apart (the endpoint URL) are sequences of one-character      *)
(* strings.  JavaScript values are records tagged by their type in field t.*)
(***************************************************************************)
EXTENDS Integers, Sequences, FiniteSets, TLC

VARIABLES
    result,              \* consumer harness: the OperationResult event delivered
    consumerOperation,   \* consumer harness: the kind the consumer was built for
    calls,               \* consumer harness: the updateCallback calls made, in order
    consumerPc,          \* consumer harness: "pending" | "delivered"
    configuration,       \* workspace.getConfiguration("vscode-graphql")
    buildOperation,      \* client harness: the operation argument of buildClient
    buildEndpoint,       \* client harness: the endpoint argument of buildClient
    built,               \* client harness: what the buildClient call produced
    configAtCall,        \* client harness: rejectUnauthorized when buildClient ran
    literal,             \* the ExtractedTemplateLiteral: [ast, content]
    endpoint,            \* the Endpoint passed to executeOperation
    inlined,             \* the invocations that inlined their fragments, in order
    outputChannel,       \* the lines appended to the output channel
    consoleErrors,       \* the console.error calls made
    faultPlan,           \* which operation's client library call throws, and where
    invocations,         \* the executeOperation calls made so far, in call order
    clients,             \* every urql client created so far, in creation order
    output,              \* the updateCallback calls made so far, in order
    budget               \* how many calls and result events the environment makes

consumerVars == <<result, consumerOperation, calls, consumerPc>>
clientVars == <<buildOperation, buildEndpoint, built, configAtCall>>
execVars ==
    <<literal, endpoint, faultPlan, invocations, inlined, clients, output,
      outputChannel, consoleErrors, budget>>
vars == <<consumerVars, configuration, clientVars, execVars>>

(***************************************************************************)
(* Bounds                                                                  *)
(***************************************************************************)
\* Top-level definitions in a document.
MaxDefs == 3
\* executeOperation calls in one behaviour.
MaxInvocations == 2
\* Result events delivered by the result streams in one behaviour.
MaxEvents == 2

OperationKinds == {"query", "mutation", "subscription"}

(***************************************************************************)
(* JavaScript values                                                       *)
(***************************************************************************)
Undefined == [t |-> "undefined"]
Null == [t |-> "null"]
Num(n) == [t |-> "number", v |-> n]
Str(s) == [t |-> "string", v |-> s]
Bool(b) == [t |-> "boolean", v |-> b]
\* A plain object: its own enumerable properties in insertion order.
Obj(members) == [t |-> "object", members |-> members]
Prop(k, v) == [key |-> k, value |-> v]
Arr(items) == [t |-> "array", items |-> items]
\* An Error instance.
ErrorObj(name, message) == [t |-> "Error", name |-> name, message |-> message]
\* urql's CombinedError.
CombinedError(graphQLErrors, networkError) ==
    [t |-> "CombinedError", graphQLErrors |-> graphQLErrors,
     networkError |-> networkError]

\* ToBoolean: what `if (x)` and `a || b` test.
Truthy(v) ==
    /\ v.t \notin {"undefined", "null"}
    /\ (v.t = "number" => v.v # 0)
    /\ (v.t = "string" => v.v # "")
    /\ (v.t = "boolean" => v.v)

(***************************************************************************)
(* JSON.stringify(value, null, 2)                                          *)
(***************************************************************************)
\* The gap of the third argument: two spaces per nesting level.
RECURSIVE Indent(_)
Indent(level) == IF level = 0 THEN "" ELSE "  " \o Indent(level - 1)

Quote(s) == "\"" \o s \o "\""

RECURSIVE SerializeJSONProperty(_, _)
RECURSIVE SerializeMembers(_, _)
RECURSIVE SerializeItems(_, _)

\* The members of an object whose value serializes (undefined is left out).
Serializable(members) == SelectSeq(members, LAMBDA m : m.value.t # "undefined")

\* "key": value lines, separated by ",\n", each at the given level.
SerializeMembers(members, level) ==
    IF members = <<>> THEN ""
    ELSE Indent(level) \o Quote(Head(members).key) \o ": "
            \o SerializeJSONProperty(Head(members).value, level)
            \o (IF Len(members) > 1 THEN ",\n" ELSE "")
            \o SerializeMembers(Tail(members), level)

\* Array elements, one per line; an undefined element is written null.
SerializeItems(items, level) ==
    IF items = <<>> THEN ""
    ELSE Indent(level)
            \o (IF Head(items).t = "undefined" THEN "null"
                ELSE SerializeJSONProperty(Head(items), level))
            \o (IF Len(items) > 1 THEN ",\n" ELSE "")
            \o SerializeItems(Tail(items), level)

SerializeJSONProperty(v, level) ==
    CASE v.t = "null" -> "null"
      [] v.t = "number" -> ToString(v.v)
      [] v.t = "string" -> Quote(v.v)
      [] v.t = "boolean" -> (IF v.v THEN "true" ELSE "false")
      [] v.t = "object" ->
            IF Serializable(v.members) = <<>> THEN "{}"
            ELSE "{\n" \o SerializeMembers(Serializable(v.members), level + 1)
                    \o "\n" \o Indent(level) \o "}"
      [] v.t = "array" ->
            IF v.items = <<>> THEN "[]"
            ELSE "[\n" \o SerializeItems(v.items, level + 1)
                    \o "\n" \o Indent(level) \o "]"

JSONStringify(v) == SerializeJSONProperty(v, 0)

\* Error.prototype.toString
ErrorToString(e) ==
    IF e.message = "" THEN e.name
    ELSE IF e.name = "" THEN e.message
    ELSE e.name \o ": " \o e.message

(***************************************************************************)
(* formatData and the consumer built by buildSubscribeConsumer             *)
(***************************************************************************)
\* A formatData that leaves the errors out: JSON.stringify({ data }, null, 2).
formatDataOnly(r) == JSONStringify(Obj(<<Prop("data", r.data)>>))

formatData(r) ==
    JSONStringify(Obj(<<Prop("data", r.data), Prop("errors", r.errors)>>))

\* One updateCallback call.
CallOf(data, operation) == [data |-> data, operation |-> operation]

\* The calls `if (errors || data)` makes.
DataBranch(r, operation) ==
    IF Truthy(r.errors) \/ Truthy(r.data)
    THEN <<CallOf(formatData(r), operation)>>
    ELSE <<>>

\* The calls `if (error.graphQLErrors && error.graphQLErrors.length > 0)` makes.
GraphQLErrorsBranch(error, operation) ==
    IF Truthy(error.graphQLErrors) /\ Len(error.graphQLErrors.items) > 0
    THEN <<CallOf(JSONStringify(Obj(<<Prop("errors", error.graphQLErrors)>>)),
                  operation)>>
    ELSE <<>>

\* A network branch that forwards error.networkError.message.
NetworkErrorMessageBranch(error, operation) ==
    IF Truthy(error.networkError)
    THEN <<CallOf(error.networkError.message, operation)>>
    ELSE <<>>

\* The calls `if (error.networkError)` makes.
NetworkErrorBranch(error, operation) ==
    IF Truthy(error.networkError)
    THEN <<CallOf(ErrorToString(error.networkError), operation)>>
    ELSE <<>>

\* An error branch whose second check is an `else if`.
ExclusiveErrorBranch(r, operation) ==
    IF Truthy(r.error)
    THEN IF GraphQLErrorsBranch(r.error, operation) # <<>>
         THEN GraphQLErrorsBranch(r.error, operation)
         ELSE NetworkErrorBranch(r.error, operation)
    ELSE <<>>

\* The calls `if (error) { ... }` makes.
ErrorBranch(r, operation) ==
    IF Truthy(r.error)
    THEN GraphQLErrorsBranch(r.error, operation)
            \o NetworkErrorBranch(r.error, operation)
    ELSE <<>>

\* The updateCallback calls one result event causes, in order.
buildSubscribeConsumer(operation, r) ==
    DataBranch(r, operation) \o ErrorBranch(r, operation)

(***************************************************************************)
(* Result events a result stream can deliver                               *)
(***************************************************************************)
FooData == Obj(<<Prop("foo", Num(1))>>)
GraphQLError1 == Obj(<<Prop("message", Str("m1"))>>)
GraphQLError2 ==
    Obj(<<Prop("message", Str("m2")), Prop("path", Arr(<<Str("foo"), Num(0)>>))>>)

\* GraphQL response data is a map of root fields, or null, or absent.
DataValues == {Undefined, Null, FooData}
ErrorsValues == {Undefined, Arr(<<>>), Arr(<<GraphQLError1>>)}
GraphQLErrorLists ==
    {Arr(<<>>), Arr(<<GraphQLError1>>), Arr(<<GraphQLError1, GraphQLError2>>)}
NetworkErrorValues ==
    {Undefined, Null, ErrorObj("Error", "x"), ErrorObj("TypeError", "")}
ErrorValues ==
    {Undefined} \cup
    {CombinedError(g, n) : g \in GraphQLErrorLists, n \in NetworkErrorValues}
ResultEvents == [data : DataValues, errors : ErrorsValues, error : ErrorValues]

(***************************************************************************)
(* Endpoint URLs                                                           *)
(***************************************************************************)
\* "http://a"
HttpUrl == <<"h", "t", "t", "p", ":", "/", "/", "a">>
\* "https://a/http"
HttpsUrl == <<"h", "t", "t", "p", "s", ":", "/", "/", "a", "/", "h", "t", "t", "p">>
\* "ftp://a"
FtpUrl == <<"f", "t", "p", ":", "/", "/", "a">>
\* "a/http": no scheme, so `new URL` rejects it
RelativeUrl == <<"a", "/", "h", "t", "t", "p">>

EndpointUrls == {HttpUrl, HttpsUrl, FtpUrl, RelativeUrl}
AuthHeaders == Obj(<<Prop("Authorization", Str("t"))>>)
Endpoints == [url : EndpointUrls, headers : {Undefined, AuthHeaders}]

StartsWith(s, prefix) ==
    /\ Len(s) >= Len(prefix)
    /\ SubSeq(s, 1, Len(prefix)) = prefix

\* url.replace(/^https?/, "ws"): the "s" of https is consumed too.
ReplaceHttpsPrefix(url) ==
    IF StartsWith(url, <<"h", "t", "t", "p", "s">>)
    THEN <<"w", "s">> \o SubSeq(url, 6, Len(url))
    ELSE IF StartsWith(url, <<"h", "t", "t", "p">>)
    THEN <<"w", "s">> \o SubSeq(url, 5, Len(url))
    ELSE url

\* url.replace(/^http/, "ws"): the first four characters, when they are "http".
ReplaceHttpPrefix(url) ==
    IF StartsWith(url, <<"h", "t", "t", "p">>)
    THEN <<"w", "s">> \o SubSeq(url, 5, Len(url))
    ELSE url

Alpha ==
    {"a", "b", "c", "d", "e", "f", "g", "h", "i", "j", "k", "l", "m",
     "n", "o", "p", "q", "r", "s", "t", "u", "v", "w", "x", "y", "z"}

\* The index of the ":" that ends the scheme, or 0 when the text has no scheme.
\* (The URLs modelled are written in lower case, where the parser's
\* lower-casing of the scheme changes nothing.)
SchemeEnd(url) ==
    IF \E i \in 2..Len(url) : url[i] = ":" /\ \A j \in 1..(i - 1) : url[j] \in Alpha
    THEN CHOOSE i \in 2..Len(url) :
            url[i] = ":" /\ \A j \in 1..(i - 1) : url[j] \in Alpha
    ELSE 0

\* Whether `new URL(url)` throws a TypeError.
URLThrows(url) == SchemeEnd(url) = 0

\* new URL(url).protocol: the scheme and its ":".
URLProtocol(url) == SubSeq(url, 1, SchemeEnd(url))

(***************************************************************************)
(* buildClient                                                             *)
(***************************************************************************)
ConnectionAckWaitTimeout == 3000

\* new Agent({ rejectUnauthorized })
Agent(rejectUnauthorized) == [t |-> "Agent", rejectUnauthorized |-> rejectUnauthorized]

\* urql's defaultExchanges
defaultExchanges ==
    <<[t |-> "dedupExchange"], [t |-> "cacheExchange"], [t |-> "fetchExchange"]>>

\* createWSClient({ url, connectionAckWaitTimeout, webSocketImpl })
CreateWSClient(ep) ==
    [t |-> "wsClient",
     url |-> ReplaceHttpPrefix(ep.url),
     connectionAckWaitTimeout |-> ConnectionAckWaitTimeout,
     webSocketImpl |-> "ws"]

\* The exchanges array: the defaults, and for a subscription the exchange that
\* forwards to a new WebSocket client.
Exchanges(operation, ep) ==
    IF operation = "subscription"
    THEN Append(defaultExchanges,
                [t |-> "subscriptionExchange", wsClient |-> CreateWSClient(ep)])
    ELSE defaultExchanges

\* An agent option that is set whatever the scheme.
AgentAlways(ep, rejectUnauthorized) == Agent(rejectUnauthorized)

\* The agent option of fetchOptions.
AgentOption(ep, rejectUnauthorized) ==
    IF URLProtocol(ep.url) = <<"h", "t", "t", "p", "s", ":">>
    THEN Agent(rejectUnauthorized)
    ELSE Undefined

\* createClient({ url, fetch, fetchOptions, exchanges })
CreateClient(operation, ep, rejectUnauthorized) ==
    [t |-> "client",
     url |-> ep.url,
     fetchOptions |-> [headers |-> ep.headers,
                       agent |-> AgentOption(ep, rejectUnauthorized)],
     exchanges |-> Exchanges(operation, ep)]

\* What a buildClient call produces: the client, or the exception of `new URL`.
\* Either way the exchanges were assembled first.
buildClient(operation, ep, rejectUnauthorized) ==
    IF URLThrows(ep.url)
    THEN [threw |-> TRUE, client |-> Undefined,
          exchanges |-> Exchanges(operation, ep)]
    ELSE [threw |-> FALSE,
          client |-> CreateClient(operation, ep, rejectUnauthorized),
          exchanges |-> Exchanges(operation, ep)]

NotBuilt == [threw |-> FALSE, client |-> Undefined, exchanges |-> <<>>]

(***************************************************************************)
(* Documents                                                               *)
(***************************************************************************)
NameNode(value) == [kind |-> "Name", value |-> value]
OperationDefinition(operation, name) ==
    [kind |-> "OperationDefinition", operation |-> operation, name |-> name]
FragmentDefinition(name) ==
    [kind |-> "FragmentDefinition", name |-> name]

\* The texts of definitions, one line each.
SourceLine(node) ==
    IF node.kind = "FragmentDefinition"
    THEN "fragment " \o node.name.value \o " on T { id }"
    ELSE IF node.name = Undefined
    THEN node.operation \o " { id }"
    ELSE node.operation \o " " \o node.name.value \o " { id }"

SeqsUpTo(S, n) == UNION {[1..k -> S] : k \in 1..n}

\* Anonymous operations of each kind.
AnonymousOperations == {OperationDefinition(k, Undefined) : k \in OperationKinds}
\* Named and anonymous operations, and a fragment definition.
Definitions ==
    AnonymousOperations
        \cup {OperationDefinition(k, NameNode("A")) : k \in OperationKinds}
        \cup {FragmentDefinition(NameNode("L"))}

\* The literal extracted for a parsed document: its text has a line per definition.
LiteralOf(ast) == [ast |-> ast, content |-> [i \in 1..Len(ast) |-> SourceLine(ast[i])]]

\* FragmentInfo records of the project's fragments.
FragmentInfo(name) ==
    [name |-> name, content |-> "fragment " \o name \o " on T { id }"]
\* The dependency lists the resolver can return for a literal: what it returns
\* follows the project's files, which can change between two calls.
TwoFragments == <<FragmentInfo("F1"), FragmentInfo("F2")>>
ResolverResults == {<<>>, TwoFragments}

(***************************************************************************)
(* executeOperation: classification                                        *)
(***************************************************************************)
\* String(node.name?.value): an anonymous operation is named "undefined".
NameOrUndefined(node) ==
    IF node.name = Undefined THEN "undefined" ELSE node.name.value

\* node.name?.value || ""
NameOrEmpty(node) ==
    IF node.name = Undefined THEN ""
    ELSE IF node.name.value = "" THEN ""
    ELSE node.name.value

\* visit(literal.ast, { OperationDefinition(node) { push; push } })
RECURSIVE visit(_, _)
visit(definitions, acc) ==
    IF definitions = <<>> THEN acc
    ELSE visit(Tail(definitions),
               IF Head(definitions).kind = "OperationDefinition"
               THEN [operationTypes |->
                        Append(acc.operationTypes, Head(definitions).operation),
                     operationNames |->
                        Append(acc.operationNames, NameOrEmpty(Head(definitions)))]
               ELSE acc)

Classify(ast) == visit(ast, [operationTypes |-> <<>>, operationNames |-> <<>>])

(***************************************************************************)
(* executeOperation: fragment inlining                                     *)
(***************************************************************************)
\* An inlining that leaves out a fragment whose text the content already holds.
RECURSIVE InlineFragmentsOnce(_, _)
InlineFragmentsOnce(fragmentInfos, content) ==
    IF fragmentInfos = <<>> THEN content
    ELSE InlineFragmentsOnce(
            Tail(fragmentInfos),
            IF \E k \in 1..Len(content) : content[k] = Head(fragmentInfos).content
            THEN content
            ELSE <<Head(fragmentInfos).content>> \o content)

\* fragmentInfos.forEach(f => { literal.content = f.content + "\n" + literal.content })
\* The text is kept as its lines: f + "\n" + text puts the line f in front.
RECURSIVE InlineFragments(_, _)
InlineFragments(fragmentInfos, content) ==
    IF fragmentInfos = <<>> THEN content
    ELSE InlineFragments(Tail(fragmentInfos), <<Head(fragmentInfos).content>> \o content)

\* gql`${literal.content}`: the document parsed from the text.
gql(content) == [kind |-> "Document", source |-> content]

(***************************************************************************)
(* executeOperation: one callback of operationTypes.map                    *)
(***************************************************************************)
NoFault == [index |-> 0, stage |-> "none"]
\* No library call throws, or the calls made for one operation throw: while its
\* client is built, or while its result stream is started.
FaultPlans(n) ==
    {NoFault} \cup {[index |-> j, stage |-> s] : j \in 1..n, s \in {"build", "start"}}

\* The client the try block holds after `this.buildClient(...)`, or Undefined
\* when the call threw (in `new URL`, or in the client library).
TryBuild(operation, ep, rejectUnauthorized, fault) ==
    IF fault = "build" \/ buildClient(operation, ep, rejectUnauthorized).threw
    THEN Undefined
    ELSE buildClient(operation, ep, rejectUnauthorized).client

\* The urql method the if/else chain picks.
ExecutionMode(operation) ==
    IF operation = "subscription" THEN "subscription"
    ELSE IF operation = "query" THEN "query"
    ELSE "mutation"

\* A callback without the try/catch: what is thrown rejects its promise.
CallbackRethrows(threw) == IF threw THEN "rejected" ELSE "fulfilled"

\* How the promise of one async callback settles: the catch swallows what the
\* try block throws.
CallbackSettles(threw) == "fulfilled"

\* One line of the output channel: a template and what is put into it.
Line(text, arg) == [text |-> text, arg |-> arg]

\* One callback of operationTypes.map(async operation => ...).
MapCallback(operation, ep, rejectUnauthorized, fault, document) ==
    LET client == TryBuild(operation, ep, rejectUnauthorized, fault)
        threw == client = Undefined \/ fault = "start"
    IN  [operation |-> operation,
         appended |-> <<Line("NetworkHelper: operation: ", operation),
                        Line("NetworkHelper: endpoint: ", ep.url)>>,
         logged |-> IF threw THEN <<"error executing operation">> ELSE <<>>,
         buildCalls |-> 1,
         client |-> client,
         mode |-> IF client = Undefined THEN "none" ELSE ExecutionMode(operation),
         document |-> document,
         subscribed |-> ~threw,
         settled |-> CallbackSettles(threw)]

\* Promise.all over the callbacks' promises.
PromiseAll(settlements) ==
    IF \E j \in 1..Len(settlements) : settlements[j] = "rejected"
    THEN "rejected"
    ELSE "fulfilled"

\* A pool keyed by operation kind and URL: a client made earlier is used again.
PooledClientId(known, made) ==
    IF \E c \in 1..Len(known) :
            /\ known[c].operation = made.operation
            /\ known[c].client.url = made.client.url
    THEN CHOOSE c \in 1..Len(known) :
            /\ known[c].operation = made.operation
            /\ known[c].client.url = made.client.url
    ELSE Len(known) + 1

\* The position in `clients` of the client a callback holds: createClient makes
\* a new client on every call.
ClientId(known, made) == Len(known) + 1

\* The clients list after the callbacks ran in order: each client built is a
\* new entry that remembers the call it belongs to.
RECURSIVE AddClients(_, _, _, _)
AddClients(known, results, i, j) ==
    IF j > Len(results) THEN known
    ELSE IF results[j].client = Undefined
    THEN AddClients(known, results, i, j + 1)
    ELSE LET id == ClientId(known, results[j])
             entry == [invocation |-> i, index |-> j,
                       operation |-> results[j].operation,
                       client |-> results[j].client,
                       mode |-> results[j].mode,
                       document |-> results[j].document,
                       subscribed |-> results[j].subscribed,
                       users |-> {<<i, j>>}]
         IN  AddClients(
                IF id > Len(known) THEN Append(known, entry)
                ELSE [known EXCEPT ![id].users = @ \cup {<<i, j>>}],
                results, i, j + 1)

(***************************************************************************)
(* executeOperation as the event loop runs it                              *)
(***************************************************************************)
\* The consumer harness at rest.
ConsumerIdle ==
    /\ result = [data |-> Undefined, errors |-> Undefined, error |-> Undefined]
    /\ consumerOperation = "query"
    /\ calls = <<>>
    /\ consumerPc = "idle"

\* The client harness at rest.
ClientIdle ==
    /\ buildOperation = "query"
    /\ buildEndpoint = [url |-> HttpUrl, headers |-> Undefined]
    /\ built = NotBuilt
    /\ configAtCall = configuration.rejectUnauthorized

HarnessIdle == ConsumerIdle /\ ClientIdle

ExecInit(documents, endpoints, plans, maxCalls, maxEvents) ==
    /\ configuration = [rejectUnauthorized |-> TRUE]
    /\ HarnessIdle
    /\ literal \in {LiteralOf(d) : d \in documents}
    /\ endpoint \in endpoints
    /\ faultPlan \in plans \cap FaultPlans(Len(Classify(literal.ast).operationTypes))
    /\ invocations = <<>>
    /\ inlined = <<>>
    /\ clients = <<>>
    /\ output = <<>>
    /\ outputChannel = <<>>
    /\ consoleErrors = <<>>
    /\ budget = [invocations |-> maxCalls, events |-> maxEvents]

\* The fault the plan holds for the j-th classified operation.
FaultAt(j) == IF faultPlan.index = j THEN faultPlan.stage ELSE "none"

\* executeOperation is called: the synchronous part up to the first await.
Call ==
    /\ Len(invocations) < budget.invocations
    /\ invocations' =
        Append(invocations,
               [pc |-> "fragmentDefinitions",
                operationTypes |-> Classify(literal.ast).operationTypes,
                operationNames |-> Classify(literal.ast).operationNames,
                fragmentInfos |-> <<>>,
                results |-> <<>>,
                rejectedBy |-> "none"])
    /\ UNCHANGED <<literal, endpoint, faultPlan, inlined, clients, output,
                   outputChannel, consoleErrors, budget>>
    /\ UNCHANGED <<consumerVars, configuration, clientVars>>

\* await this.sourceHelper.getFragmentDefinitions(projectConfig) resumes.
FragmentDefinitionsResolved(i) ==
    /\ invocations[i].pc = "fragmentDefinitions"
    /\ invocations' = [invocations EXCEPT ![i].pc = "fragmentDependencies"]
    /\ UNCHANGED <<literal, endpoint, faultPlan, inlined, clients, output,
                   outputChannel, consoleErrors, budget>>
    /\ UNCHANGED <<consumerVars, configuration, clientVars>>

\* One of the two awaited resolver calls rejects: the error propagates.
ResolutionFailed(i) ==
    /\ invocations[i].pc \in {"fragmentDefinitions", "fragmentDependencies"}
    /\ invocations' = [invocations EXCEPT ![i].pc = "rejected",
                                          ![i].rejectedBy = "resolver"]
    /\ UNCHANGED <<literal, endpoint, faultPlan, inlined, clients, output,
                   outputChannel, consoleErrors, budget>>
    /\ UNCHANGED <<consumerVars, configuration, clientVars>>

\* The results of operationTypes.map(...) for an invocation and the document sent.
MapResults(inv, document) ==
    [j \in 1..Len(inv.operationTypes) |->
        MapCallback(inv.operationTypes[j], endpoint,
                    configuration.rejectUnauthorized, FaultAt(j), document)]

\* All the lines the callbacks appended, in order.
RECURSIVE Flatten(_)
Flatten(seqs) == IF seqs = <<>> THEN <<>> ELSE Head(seqs) \o Flatten(Tail(seqs))

\* await getFragmentDependenciesForAST(...) resumes with fragmentInfos: the
\* rest of the function runs to its return without another await.
FragmentDependenciesResolved(i, fragmentInfos) ==
    /\ invocations[i].pc = "fragmentDependencies"
    /\ LET content == InlineFragments(fragmentInfos, literal.content)
           results == MapResults(invocations[i], gql(content))
       IN  /\ literal' = [literal EXCEPT !.content = content]
           /\ clients' = AddClients(clients, results, i, 1)
           /\ outputChannel' = outputChannel
                \o Flatten([j \in 1..Len(results) |-> results[j].appended])
           /\ consoleErrors' = consoleErrors
                \o Flatten([j \in 1..Len(results) |-> results[j].logged])
           /\ invocations' = [invocations EXCEPT ![i].pc = "mapped",
                                                 ![i].fragmentInfos = fragmentInfos,
                                                 ![i].results = results]
    /\ inlined' = Append(inlined, i)
    /\ UNCHANGED <<endpoint, faultPlan, output, budget>>
    /\ UNCHANGED <<consumerVars, configuration, clientVars>>

\* Callbacks that await the first result of the stream they subscribed.
CallbacksAwaitResults(i, known, out) ==
    \A c \in 1..Len(known) :
        (known[c].invocation = i /\ known[c].subscribed)
            => \E k \in 1..Len(out) : out[k].client = c

\* Whether every callback's promise has settled: a callback awaits nothing, so
\* its promise settles when the callback returns.
CallbacksSettled(i, known, out) == TRUE

\* The promise executeOperation returned settles with Promise.all.
Settle(i) ==
    /\ invocations[i].pc = "mapped"
    /\ CallbacksSettled(i, clients, output)
    /\ LET settlements == [j \in 1..Len(invocations[i].results) |->
                                invocations[i].results[j].settled]
       IN  invocations' =
            IF PromiseAll(settlements) = "fulfilled"
            THEN [invocations EXCEPT ![i].pc = "resolved"]
            ELSE [invocations EXCEPT ![i].pc = "rejected",
                                     ![i].rejectedBy = "callback"]
    /\ UNCHANGED <<literal, endpoint, faultPlan, inlined, clients, output,
                   outputChannel, consoleErrors, budget>>
    /\ UNCHANGED <<consumerVars, configuration, clientVars>>

\* The result events the streams deliver while executeOperation is what runs:
\* partial data with a network error, which makes the consumer call back twice.
StreamEvents ==
    {[data |-> FooData, errors |-> Undefined,
      error |-> CombinedError(Undefined, ErrorObj("Error", "x"))]}

\* The number of result events delivered so far.
EventsDelivered == IF output = <<>> THEN 0 ELSE output[Len(output)].event

\* The subscriber of client c receives a result event.  Results arrive from the
\* network in later turns of the event loop, after the pending continuations
\* of the turn that subscribed.
Emit(c, r) ==
    /\ clients[c].subscribed
    /\ \A i \in 1..Len(invocations) : invocations[i].pc # "mapped"
    /\ EventsDelivered < budget.events
    /\ LET made == buildSubscribeConsumer(clients[c].operation, r)
       IN  output' = output \o
                [k \in 1..Len(made) |->
                    [data |-> made[k].data, operation |-> made[k].operation,
                     client |-> c, event |-> EventsDelivered + 1,
                     settledBefore |->
                        invocations[clients[c].invocation].pc = "resolved"]]
    /\ UNCHANGED <<literal, endpoint, faultPlan, invocations, inlined, clients,
                   outputChannel, consoleErrors, budget>>
    /\ UNCHANGED <<consumerVars, configuration, clientVars>>

\* Documents of anonymous operations, and all documents.
OperationDocuments == SeqsUpTo(AnonymousOperations, MaxDefs)
Documents == SeqsUpTo(Definitions, MaxDefs)

HttpsEndpoint == [url |-> HttpsUrl, headers |-> Undefined]
RelativeEndpoint == [url |-> RelativeUrl, headers |-> Undefined]

\* Repeated and overlapping calls on one literal, with a well-formed and a
\* malformed endpoint URL.
InitRuns ==
    ExecInit(OperationDocuments, {HttpsEndpoint, RelativeEndpoint}, {NoFault},
             MaxInvocations, 0)

\* One call, with and without a throwing library call, whose result streams
\* deliver events.
InitStreams ==
    ExecInit(OperationDocuments, {HttpsEndpoint}, FaultPlans(MaxDefs), 1, MaxEvents)

\* One call on each document of named and anonymous operations and fragments.
InitDocuments ==
    ExecInit(Documents, {HttpsEndpoint}, {NoFault}, 1, 0)

Init == InitRuns \/ InitStreams \/ InitDocuments

Next ==
    \/ Call
    \/ \E i \in 1..Len(invocations) : FragmentDefinitionsResolved(i)
    \/ \E i \in 1..Len(invocations) : ResolutionFailed(i)
    \/ \E i \in 1..Len(invocations), fragmentInfos \in ResolverResults :
            FragmentDependenciesResolved(i, fragmentInfos)
    \/ \E i \in 1..Len(invocations) : Settle(i)
    \/ \E c \in 1..Len(clients), r \in StreamEvents : Emit(c, r)

Spec == Init /\ [][Next]_vars

(***************************************************************************)
(* The consumer on one result event                                        *)
(***************************************************************************)
\* executeOperation at rest.
ExecIdle ==
    /\ literal = LiteralOf(<<OperationDefinition("query", Undefined)>>)
    /\ endpoint = [url |-> HttpUrl, headers |-> Undefined]
    /\ faultPlan = NoFault
    /\ invocations = <<>>
    /\ inlined = <<>>
    /\ clients = <<>>
    /\ output = <<>>
    /\ outputChannel = <<>>
    /\ consoleErrors = <<>>
    /\ budget = [invocations |-> 0, events |-> 0]

InitConsumer ==
    /\ result \in ResultEvents
    /\ consumerOperation \in OperationKinds
    /\ calls = <<>>
    /\ consumerPc = "pending"
    /\ configuration = [rejectUnauthorized |-> TRUE]
    /\ ClientIdle
    /\ ExecIdle

\* The result stream delivers `result` to the subscriber.
Deliver ==
    /\ consumerPc = "pending"
    /\ calls' = calls \o buildSubscribeConsumer(consumerOperation, result)
    /\ consumerPc' = "delivered"
    /\ UNCHANGED <<result, consumerOperation, configuration, clientVars, execVars>>

NextConsumer == Deliver

SpecConsumer == InitConsumer /\ [][NextConsumer]_vars

(***************************************************************************)
(* buildClient on one (operation, endpoint) under a changing configuration *)
(***************************************************************************)
InitClient ==
    /\ configuration \in [rejectUnauthorized : BOOLEAN]
    /\ buildOperation \in OperationKinds
    /\ buildEndpoint \in Endpoints
    /\ built = NotBuilt
    /\ configAtCall = configuration.rejectUnauthorized
    /\ ConsumerIdle
    /\ ExecIdle

\* The user changes the vscode-graphql.rejectUnauthorized setting.
ConfigurationChanged ==
    /\ configuration' = [rejectUnauthorized |-> ~configuration.rejectUnauthorized]
    /\ UNCHANGED <<consumerVars, clientVars, execVars>>

\* One buildClient call.
Build ==
    /\ built = NotBuilt
    /\ built' = buildClient(buildOperation, buildEndpoint,
                            configuration.rejectUnauthorized)
    /\ configAtCall' = configuration.rejectUnauthorized
    /\ UNCHANGED <<configuration, buildOperation, buildEndpoint, consumerVars, execVars>>

NextClient == ConfigurationChanged \/ Build

SpecClient == InitClient /\ [][NextClient]_vars

(***************************************************************************)
(* Properties of the result consumer (checked under SpecConsumer)          *)
(***************************************************************************)
\* A field of a result event carries something: it is neither absent nor null.
Carries(v) == v # Undefined /\ v # Null

\* The JSON text of each data value, as it is laid out one level deep with a
\* two-space indentation.
ExpectedDataText(d) ==
    IF d = FooData THEN "{\n    \"foo\": 1\n  }" ELSE "null"

\* The JSON text of each GraphQL error list, laid out one level deep.
ExpectedErrorsText(e) ==
    IF e = Arr(<<>>) THEN "[]"
    ELSE IF e = Arr(<<GraphQLError1>>)
    THEN "[\n    {\n      \"message\": \"m1\"\n    }\n  ]"
    ELSE "[\n    {\n      \"message\": \"m1\"\n    },\n    {\n      \"message\": \"m2\",\n      \"path\": [\n        \"foo\",\n        0\n      ]\n    }\n  ]"

\* The two-space pretty-printed JSON of { data, errors }.
ExpectedDataPayload(r) ==
    "{\n"
        \o (IF r.data # Undefined
            THEN "  \"data\": " \o ExpectedDataText(r.data) ELSE "")
        \o (IF r.data # Undefined /\ r.errors # Undefined THEN ",\n" ELSE "")
        \o (IF r.errors # Undefined
            THEN "  \"errors\": " \o ExpectedErrorsText(r.errors) ELSE "")
        \o "\n}"

\* The two-space pretty-printed JSON of { errors: graphQLErrors }.
ExpectedErrorsPayload(g) == "{\n  \"errors\": " \o ExpectedErrorsText(g) \o "\n}"

\* The string form of each network error.
ExpectedErrorString(e) ==
    IF e = ErrorObj("Error", "x") THEN "Error: x" ELSE "TypeError"

\* C5: a delivered result event that carries data and/or errors and no
\* top-level error makes the consumer call the callback exactly once, with the
\* two-space pretty-printed JSON of {data, errors} and the kind the consumer
\* was built for.
C5_DataForwardedOnce ==
    (/\ consumerPc = "delivered"
     /\ Carries(result.data) \/ Carries(result.errors)
     /\ result.error = Undefined)
        => calls = <<[data |-> ExpectedDataPayload(result),
                      operation |-> consumerOperation]>>

\* C5 happens: an event with data and errors and no error was delivered to a
\* subscription consumer, which made its one call.
C5_Witness ==
    /\ consumerPc = "delivered"
    /\ result = [data |-> FooData, errors |-> Arr(<<GraphQLError1>>),
                 error |-> Undefined]
    /\ consumerOperation = "subscription"
    /\ Len(calls) = 1

\* C6: a delivered event that carries only a top-level error makes exactly one
\* call: the pretty-printed JSON {"errors": graphQLErrors} when graphQLErrors
\* is non-empty and there is no network error, the network error's string form
\* when graphQLErrors is empty and the network error is present.
C6_ErrorOnlyEvent ==
    (/\ consumerPc = "delivered"
     /\ ~Carries(result.data)
     /\ ~Carries(result.errors)
     /\ result.error # Undefined)
        => /\ (/\ result.error.graphQLErrors # Arr(<<>>)
               /\ ~Carries(result.error.networkError))
                => calls = <<[data |-> ExpectedErrorsPayload(result.error.graphQLErrors),
                              operation |-> consumerOperation]>>
           /\ (/\ result.error.graphQLErrors = Arr(<<>>)
               /\ Carries(result.error.networkError))
                => calls = <<[data |-> ExpectedErrorString(result.error.networkError),
                              operation |-> consumerOperation]>>

\* C6 happens: an event holding only a network error was delivered and made
\* one call.
C6_Witness ==
    /\ consumerPc = "delivered"
    /\ result = [data |-> Undefined, errors |-> Undefined,
                 error |-> CombinedError(Arr(<<>>), ErrorObj("Error", "x"))]
    /\ Len(calls) = 1
    /\ calls[1].data = "Error: x"

\* The calls each condition stands for, when it holds.
ExpectedDataCalls ==
    IF Carries(result.data) \/ Carries(result.errors)
    THEN <<[data |-> ExpectedDataPayload(result), operation |-> consumerOperation]>>
    ELSE <<>>
ExpectedGraphQLErrorCalls ==
    IF result.error # Undefined /\ result.error.graphQLErrors # Arr(<<>>)
    THEN <<[data |-> ExpectedErrorsPayload(result.error.graphQLErrors),
            operation |-> consumerOperation]>>
    ELSE <<>>
ExpectedNetworkErrorCalls ==
    IF result.error # Undefined /\ Carries(result.error.networkError)
    THEN <<[data |-> ExpectedErrorString(result.error.networkError),
            operation |-> consumerOperation]>>
    ELSE <<>>

\* C7: the three checks are independent: one event makes as many calls as the
\* conditions that hold (data or errors carried; graphQLErrors non-empty;
\* networkError present), from 0 to 3, in the order data payload, GraphQL
\* errors payload, network error string.
C7_IndependentChecks ==
    consumerPc = "delivered"
        => /\ Len(calls) =
                (IF Carries(result.data) \/ Carries(result.errors) THEN 1 ELSE 0)
                + (IF result.error # Undefined /\ result.error.graphQLErrors # Arr(<<>>)
                   THEN 1 ELSE 0)
                + (IF result.error # Undefined /\ Carries(result.error.networkError)
                   THEN 1 ELSE 0)
           /\ calls = ExpectedDataCalls \o ExpectedGraphQLErrorCalls
                        \o ExpectedNetworkErrorCalls

\* C7 happens: one event for which all three conditions hold made three calls.
C7_Witness ==
    /\ consumerPc = "delivered"
    /\ result.data = FooData
    /\ result.error = CombinedError(Arr(<<GraphQLError1, GraphQLError2>>),
                                    ErrorObj("Error", "x"))
    /\ Len(calls) = 3

(***************************************************************************)
(* Properties of buildClient (checked under SpecClient)                    *)
(***************************************************************************)
\* The index of the first ":" of a URL, or 0.
FirstColon(url) ==
    IF \E i \in 1..Len(url) : url[i] = ":"
    THEN CHOOSE i \in 1..Len(url) : url[i] = ":" /\ \A j \in 1..(i - 1) : url[j] # ":"
    ELSE 0

\* The URL with scheme http turned into ws and https into wss.
ExpectedWsUrl(url) ==
    LET i == FirstColon(url)
        scheme == SubSeq(url, 1, i - 1)
        rest == SubSeq(url, i, Len(url))
    IN  IF i = 0 THEN url
        ELSE IF scheme = <<"h", "t", "t", "p">> THEN <<"w", "s">> \o rest
        ELSE IF scheme = <<"h", "t", "t", "p", "s">> THEN <<"w", "s", "s">> \o rest
        ELSE url

\* The positions of subscription exchanges among the exchanges assembled.
SubscriptionExchanges ==
    {k \in 1..Len(built.exchanges) : built.exchanges[k].t = "subscriptionExchange"}

IsHttps(url) == StartsWith(url, <<"h", "t", "t", "p", "s", ":">>)

\* C9: the HTTP client gets a connection agent exactly when the endpoint
\* scheme is https; the agent carries the rejectUnauthorized value the
\* configuration held when buildClient ran; with another scheme, the build
\* under the opposite setting yields the same client.
C9_AgentForHttps ==
    (built # NotBuilt /\ ~built.threw)
        => /\ (built.client.fetchOptions.agent # Undefined)
                <=> IsHttps(buildEndpoint.url)
           /\ IsHttps(buildEndpoint.url)
                => built.client.fetchOptions.agent.rejectUnauthorized = configAtCall
           /\ ~IsHttps(buildEndpoint.url)
                => buildClient(buildOperation, buildEndpoint, ~configAtCall).client
                        = built.client

\* C9 happens: with verification disabled, a client was built for an https
\* endpoint and holds an agent that does not verify; the setting was switched
\* back on afterwards.
C9_Witness ==
    /\ built # NotBuilt
    /\ ~built.threw
    /\ IsHttps(buildEndpoint.url)
    /\ configAtCall = FALSE
    /\ built.client.fetchOptions.agent.rejectUnauthorized = FALSE
    /\ configuration.rejectUnauthorized = TRUE

(***************************************************************************)
(* Properties of executeOperation (checked under Spec)                     *)
(***************************************************************************)
\* The invocations whose callbacks have run.
Mapped == {i \in 1..Len(invocations) :
            invocations[i].pc \in {"mapped", "resolved"}
            \/ invocations[i].rejectedBy = "callback"}

\* Nothing throws for the j-th operation: the endpoint URL parses and the
\* plan holds no fault for it.
RunsClean(j) == ~URLThrows(endpoint.url) /\ faultPlan.index # j

\* The entries of `clients` used by the j-th callback of invocation i.
ClientsOf(i, j) == {c \in 1..Len(clients) : <<i, j>> \in clients[c].users}

\* C1: an exception thrown while the client of one operation is built or
\* started is contained: every other classified operation has its client built
\* and its result stream subscribed, and the returned promise is not rejected
\* by it: it settles resolved.
C1_FailureContained ==
    \A i \in Mapped :
        /\ Len(invocations[i].results) = Len(invocations[i].operationTypes)
        /\ \A j \in 1..Len(invocations[i].operationTypes) :
            RunsClean(j)
                => /\ invocations[i].results[j].client # Undefined
                   /\ invocations[i].results[j].subscribed
                   /\ invocations[i].results[j].mode = invocations[i].operationTypes[j]
                   /\ \E c \in ClientsOf(i, j) : clients[c].subscribed
        /\ invocations[i].pc # "rejected"
        /\ invocations[i].rejectedBy = "none"

\* C1 happens: of three operations the second threw while its client was
\* built, the first and third are subscribed, and the promise has resolved.
C1_Witness ==
    \E i \in 1..Len(invocations) :
        /\ invocations[i].pc = "resolved"
        /\ Len(invocations[i].operationTypes) = 3
        /\ faultPlan = [index |-> 2, stage |-> "build"]
        /\ invocations[i].results[1].subscribed
        /\ ~invocations[i].results[2].subscribed
        /\ invocations[i].results[3].subscribed

\* C2: the returned promise resolves once the build-and-subscribe step has run
\* for every classified operation and waits for no result stream: as soon as
\* the callbacks have run it can settle, whatever the streams have delivered;
\* once it has resolved, every subscribed stream can still deliver, in any
\* order, while events remain.
C2_ResolvesWithoutWaiting ==
    /\ \A i \in 1..Len(invocations) :
        /\ invocations[i].pc = "mapped" => ENABLED Settle(i)
        /\ invocations[i].pc = "resolved"
            => Len(invocations[i].results) = Len(invocations[i].operationTypes)
    /\ \A c \in 1..Len(clients) :
        (/\ clients[c].subscribed
         /\ invocations[clients[c].invocation].pc = "resolved"
         /\ \A i \in 1..Len(invocations) : invocations[i].pc # "mapped"
         /\ EventsDelivered < budget.events)
            => \A r \in StreamEvents : ENABLED Emit(c, r)

\* C2 happens: after the promise resolved, the stream of a later operation
\* delivered a result before the stream of an earlier one.
C2_Witness ==
    \E p, q \in 1..Len(output) :
        /\ p < q
        /\ output[p].client > output[q].client
        /\ output[p].settledBefore
        /\ output[q].settledBefore
        /\ invocations[clients[output[p].client].invocation].pc = "resolved"

\* The positions of the operation definitions of the literal's document.
OperationPositions ==
    {p \in 1..Len(literal.ast) : literal.ast[p].kind = "OperationDefinition"}

RECURSIVE SumBuildCalls(_)
SumBuildCalls(results) ==
    IF results = <<>> THEN 0
    ELSE Head(results).buildCalls + SumBuildCalls(Tail(results))

\* C3: one invocation calls buildClient once per operation found in the
\* document, and no client is shared between operations or used again by a
\* later invocation: every client belongs to exactly one callback of one
\* invocation.
C3_OneClientPerOperation ==
    /\ \A i \in Mapped :
        /\ SumBuildCalls(invocations[i].results) = Cardinality(OperationPositions)
        /\ \A j \in 1..Len(invocations[i].results) :
            Cardinality(ClientsOf(i, j)) =
                IF invocations[i].results[j].client = Undefined THEN 0 ELSE 1
    /\ \A c \in 1..Len(clients) :
        clients[c].users = {<<clients[c].invocation, clients[c].index>>}
    /\ Len(clients) <= Cardinality(Mapped) * Cardinality(OperationPositions)

\* C3 happens: two invocations ran on a document of two queries and four
\* clients exist.
C3_Witness ==
    /\ Cardinality(Mapped) = 2
    /\ Classify(literal.ast).operationTypes = <<"query", "query">>
    /\ Len(clients) = 4

\* The p-th smallest member of a set of positions.
Nth(positions, j) ==
    CHOOSE p \in positions : Cardinality({q \in positions : q <= p}) = j

\* C4: the classification of a document with N operation definitions holds N
\* (kind, name) pairs in document order, the name of an anonymous operation
\* being the empty string; it is taken from the literal's syntax tree at the
\* call, before the fragments are inlined.
C4_ClassifiesInOrder ==
    \A i \in 1..Len(invocations) :
        LET types == invocations[i].operationTypes
            names == invocations[i].operationNames
            n == Cardinality(OperationPositions)
        IN  /\ Len(types) = n
            /\ Len(names) = n
            /\ \A j \in 1..n :
                LET node == literal.ast[Nth(OperationPositions, j)]
                IN  /\ types[j] = node.operation
                    /\ names[j] = IF node.name = Undefined THEN ""
                                  ELSE node.name.value

\* C4 happens: a document of a fragment, an anonymous mutation and a query A
\* is classified into two pairs while its fragments are not yet inlined.
C4_Witness ==
    \E i \in 1..Len(invocations) :
        /\ invocations[i].pc = "fragmentDefinitions"
        /\ literal.ast = <<FragmentDefinition(NameNode("L")),
                           OperationDefinition("mutation", Undefined),
                           OperationDefinition("query", NameNode("A"))>>
        /\ invocations[i].operationTypes = <<"mutation", "query">>
        /\ invocations[i].operationNames = <<"", "A">>
        /\ literal.content = LiteralOf(literal.ast).content

\* The texts of a resolved fragment list, last resolved first.
ReversedTexts(fragmentInfos) ==
    [j \in 1..Len(fragmentInfos) |->
        fragmentInfos[Len(fragmentInfos) + 1 - j].content]

\* What the runs numbered in `order` (earliest first) have put in front of the
\* original text: the texts of the latest run come first.
RECURSIVE Prepended(_)
Prepended(order) ==
    IF order = <<>> THEN <<>>
    ELSE Prepended(Tail(order))
            \o ReversedTexts(invocations[Head(order)].fragmentInfos)

\* How many lines of a content are a given text.
Occurrences(content, text) ==
    Cardinality({k \in 1..Len(content) : content[k] = text})

\* The runs that resolved a fragment with a given text.
RunsResolving(text) ==
    {i \in Mapped :
        \E j \in 1..Len(invocations[i].fragmentInfos) :
            invocations[i].fragmentInfos[j].content = text}

\* C10: inlining prepends the resolved fragment texts to literal.content, one
\* per line, last resolved first, without deduplication: each run on the same
\* literal puts its fk, ..., f1 in front of what the runs before left, so the
\* content holds one copy of a fragment text for every run that resolved it: n
\* copies after n runs that resolved the same fragments.
C10_InliningPrepends ==
    /\ literal.content = Prepended(inlined) \o LiteralOf(literal.ast).content
    /\ \A f \in {FragmentInfo("F1"), FragmentInfo("F2")} :
            Occurrences(literal.content, f.content)
                = Cardinality(RunsResolving(f.content))
    /\ (\A i \in Mapped : invocations[i].fragmentInfos = TwoFragments)
            => \A j \in 1..Len(TwoFragments) :
                    Occurrences(literal.content, TwoFragments[j].content)
                        = Cardinality(Mapped)

\* C10 happens: two runs inlined the fragments F1, F2 and the content begins
\* F2, F1, F2, F1.
C10_Witness ==
    /\ Cardinality(Mapped) = 2
    /\ \A i \in Mapped : invocations[i].fragmentInfos = TwoFragments
    /\ SubSeq(literal.content, 1, 4) =
            <<FragmentInfo("F2").content, FragmentInfo("F1").content,
              FragmentInfo("F2").content, FragmentInfo("F1").content>>

====
